---- MODULE Spec2Model ----
(***************************************************************************)
(* Model of read_yaml_from_disk.py: the SemanticConventions graph builder  *)
(* (add_groups and the three relate2* resolvers) and the PersistenceKuzu   *)
(* adapter (set_schema, persist_nodes, persist_relations, execute).        *)
(*                                                                         *)
(* Python dicts whose keys are field names are TLA+ functions over strings.*)
(* The node and relation collections, whose insertion order decides the    *)
(* order of the batch files and of the COPY statements, are ordered dicts: *)
(* sequences of [k, v] pairs.                                              *)
(***************************************************************************)
EXTENDS Integers, Sequences, FiniteSets, TLC

VARIABLES
    nodes,      \* self.nodes: node table name -> ordered dict id -> node
    relations,  \* self.relations: relation name -> ordered dict node table -> list of edges
    pc,         \* position of the __main__ script
    used,       \* number of input items (entries and list elements) read so far
    last,       \* the latest step: its operation, its input and how it ended
    shapes,     \* for each HasAttribute batch, the shape (ref or inline) of the
                \* descriptor each of its edges was made from
    statements, \* set_schema's list: the schema file split at ';'
    idx,        \* index of the next iteration of the persistence loop that pc names
    files,      \* batch files written by save_import_file, in order
    attempted,  \* statements handed to conn.execute, in order
    failed      \* whether the store has rejected a statement so far

vars == <<nodes, relations, pc, used, last, shapes, statements, idx, files, attempted, failed>>

----------------------------------------------------------------------------
(* Bounds of the model *)

\* total number of entries, attribute descriptors, event names and entity
\* names that the documents of one run contain
MaxItems == 3

----------------------------------------------------------------------------
(* Python dict and str primitives *)

Del(d, k) == [f \in DOMAIN d \ {k} |-> d[f]]

SetItem(d, k, v) == [f \in DOMAIN d \cup {k} |-> IF f = k THEN v ELSE d[f]]

\* dict.update: the fields of b win over those of a
update(a, b) == [f \in DOMAIN a \cup DOMAIN b |-> IF f \in DOMAIN b THEN b[f] ELSE a[f]]

startswith(s, prefix) == Len(s) >= Len(prefix) /\ SubSeq(s, 1, Len(prefix)) = prefix

\* A value of a field that holds values of several Python types carries its type
PyStr(s) == <<"str", s>>
PyDict(m) == <<"dict", m>>
PyInt(n) == <<"int", n>>
PyList(xs) == <<"list", xs>>
isdict(v) == v[1] = "dict"

\* str(x) of an examples item
str(x) == IF x[1] = "int" THEN ToString(x[2]) ELSE x[2]

RECURSIVE join(_, _)
join(sep, xs) ==
    IF Len(xs) = 0 THEN ""
    ELSE IF Len(xs) = 1 THEN str(xs[1])
    ELSE str(xs[1]) \o sep \o join(sep, Tail(xs))

(* Ordered dicts: insertion-ordered sequences of [k, v] *)
Keys(od) == {od[i].k : i \in DOMAIN od}
Has(od, key) == key \in Keys(od)
Get(od, key) == od[CHOOSE i \in DOMAIN od : od[i].k = key].v
Values(od) == [i \in DOMAIN od |-> od[i].v]
\* od[key] = value: an existing key keeps its place and gets the new value
Put(od, key, value) ==
    IF Has(od, key)
    THEN [i \in DOMAIN od |-> IF od[i].k = key THEN [k |-> key, v |-> value] ELSE od[i]]
    ELSE Append(od, [k |-> key, v |-> value])
\* od.setdefault(key, []) followed by appends to the list it returns
Extend(od, key, items) ==
    IF Has(od, key) THEN Put(od, key, Get(od, key) \o items) ELSE Put(od, key, items)

----------------------------------------------------------------------------
(* Tables *)

NodeTypes == <<"Metric", "Entity", "Span", "AttributeGroup", "Event", "Attribute">>
RelationNames == <<"HasAttribute", "HasEvent", "AssociatedWith">>

Range(s) == {s[i] : i \in DOMAIN s}

None == "None"

mappings == [metric |-> "Metric", entity |-> "Entity", span |-> "Span",
             attribute_group |-> "AttributeGroup", event |-> "Event"]

\* mutant: the kind `attribute` is ingested like the other kinds
nodetype2nodeWithAttribute(section) ==
    LET node_type == IF "type" \in DOMAIN section THEN section.type ELSE None
    IN IF node_type = "attribute" THEN "Attribute"
       ELSE IF node_type \in DOMAIN mappings THEN mappings[node_type] ELSE None

nodetype2node(section) ==
    LET node_type == IF "type" \in DOMAIN section THEN section.type ELSE None
    IN IF node_type \in DOMAIN mappings THEN mappings[node_type] ELSE None

relation2node == [HasAttribute |-> "Attribute", HasEvent |-> "Event", AssociatedWith |-> "Entity"]

----------------------------------------------------------------------------
(* Inputs: the entries the parsed documents can hold *)

NodeIds == {"n1", "n2"}
AttrIds == {"a1", "a2"}
Briefs == {"x", "y"}
EventNames == {"x", "event.x", "eventx"}
EntityNames == {"y", "entity.y", "entityy"}

RequirementLevels ==
    { PyStr("required"),
      PyDict([conditionally_required |-> "c1"]),
      PyDict([recommended |-> "r1"]),
      PyDict([conditionally_required |-> "c1", recommended |-> "r1"]),
      PyDict([opt_in |-> "o1"]) }

Examples == PyList(<< PyStr("GET"), PyInt(200) >>)

\* reference descriptors: a bare ref, a ref with a requirement level, a ref with examples
RefDescriptors ==
    {[ref |-> r] : r \in AttrIds}
    \cup {[ref |-> "a1", requirement_level |-> q] : q \in RequirementLevels}
    \cup {[ref |-> "a1", examples |-> Examples]}

\* inline descriptors: attribute definitions, and one that lacks its type
InlineDescriptors ==
    {[id |-> a, type |-> "string", brief |-> b] : a \in AttrIds, b \in Briefs}
    \cup {[id |-> "a1", brief |-> "x"]}

Descriptors == RefDescriptors \cup InlineDescriptors

SeqsOf(S, n) == [1..n -> S]

\* entries without any list field: the ingestible kinds metric and attribute_group
\* (with and without a display_name), the kind attribute, an entry without a
\* type and an entry without an id
BareSections ==
    {[type |-> t, id |-> i] : t \in {"metric", "attribute_group"}, i \in NodeIds}
    \cup {[type |-> "attribute_group", id |-> i, display_name |-> "d"] : i \in NodeIds}
    \cup {[type |-> "attribute", id |-> "n1"], [id |-> "n1"], [type |-> "metric"]}

\* the entries that hold na attribute descriptors, ne event names and nx entity names;
\* a list field of length 0 is absent, except entity_associations, which may be []
SectionsWith(na, ne, nx) ==
    LET A == {s \in BareSections : na = 0} \cup
             {SetItem(s, "attributes", l) : s \in {b \in BareSections : na > 0}, l \in SeqsOf(Descriptors, na)}
        E == {s \in A : ne = 0} \cup
             {SetItem(s, "events", l) : s \in {b \in A : ne > 0}, l \in SeqsOf(EventNames, ne)}
    IN  {s \in E : nx = 0} \cup
        {SetItem(s, "entity_associations", l) : s \in E, l \in SeqsOf(EntityNames, nx)}

Size(section) ==
    1 + (IF "attributes" \in DOMAIN section THEN Len(section.attributes) ELSE 0)
      + (IF "events" \in DOMAIN section THEN Len(section.events) ELSE 0)
      + (IF "entity_associations" \in DOMAIN section THEN Len(section.entity_associations) ELSE 0)

\* the entries of at most n items
SectionsUpTo(n) ==
    UNION {SectionsWith(c[1], c[2], c[3]) :
             c \in {d \in (0..n) \X (0..n) \X (0..n) : 1 + d[1] + d[2] + d[3] <= n}}

\* Sections[n]: the entries a document can still hold when n items are left
Sections == [n \in 0..MaxItems |-> SectionsUpTo(n)]

----------------------------------------------------------------------------
(* SemanticConventions *)

reset == [nodes |-> [t \in Range(NodeTypes) |-> <<>>],
          relations |-> [r \in Range(RelationNames) |-> <<>>]]

\* line 119
requirementOf(data) ==
    IF "requirement_level" \in DOMAIN data THEN data.requirement_level ELSE PyStr(None)

\* mutant: the requirement level is flattened without recording its condition
flattenKeyNoCondition(data, requirement, level) ==
    IF isdict(requirement) /\ level \in DOMAIN requirement[2]
    THEN SetItem(data, "requirement_level", PyStr(level))
    ELSE data

\* lines 120-126: one of the two independent checks on a compound requirement level
flattenKey(data, requirement, level) ==
    IF isdict(requirement) /\ level \in DOMAIN requirement[2]
    THEN SetItem(SetItem(data, "condition", requirement[2][level]),
                 "requirement_level", PyStr(level))
    ELSE data

flattenRequirement(data, requirement) ==
    flattenKey(flattenKey(data, requirement, "conditionally_required"),
               requirement, "recommended")

\* lines 127-129
joinExamples(data) ==
    IF "examples" \in DOMAIN data
    THEN SetItem(data, "examples", PyStr(join("\n", data.examples[2])))
    ELSE data

\* lines 118-129: a reference descriptor as the in-place edits leave it
flattenFrom(data) == joinExamples(flattenRequirement(data, requirementOf(data)))
flatten(data) == flattenFrom(Del(data, "ref"))

\* mutant: the inline definition is not recorded
storeAttributeSkipped(all_attributes, attribute_name, data) == all_attributes

\* the Attribute collection after line 134
storeAttribute(all_attributes, attribute_name, data) == Put(all_attributes, attribute_name, data)

\* mutant: the edge is built from the descriptor before `ref` is deleted
refStepKeepsRef(node, data, d, acc) ==
    [acc EXCEPT !.rels = Append(@, update([from |-> node, to |-> data.ref], update(data, d))),
                !.edited = Append(@, d)]

\* lines 115-130 and 136: a reference descriptor, edited to d, adds its edge
refStep(node, data, d, acc) ==
    [acc EXCEPT !.rels = Append(@, update([from |-> node, to |-> data.ref], d)),
                !.edited = Append(@, d)]

\* mutant: the inline definition is stored with its type
inlineStepKeepsType(node, data, d, acc) ==
    [acc EXCEPT !.attrs = storeAttribute(@, data.id, data),
                !.rels = Append(@, [from |-> node, to |-> data.id]),
                !.edited = Append(@, d)]

\* lines 132-136: an inline descriptor, edited to d, becomes an Attribute node
\* and adds its edge
inlineStep(node, data, d, acc) ==
    [acc EXCEPT !.attrs = storeAttribute(@, data.id, d),
                !.rels = Append(@, [from |-> node, to |-> data.id]),
                !.edited = Append(@, d)]

\* lines 115-136: one descriptor; `del data['type']` raises KeyError when the
\* inline descriptor has no type
attributeStep(node, data, acc) ==
    IF "ref" \in DOMAIN data THEN refStep(node, data, flatten(data), acc)
    ELSE IF "type" \notin DOMAIN data THEN [acc EXCEPT !.raised = TRUE]
    ELSE inlineStep(node, data, Del(data, "type"), acc)

\* The loop of relate2attribute over attributes[i..]. acc holds the Attribute
\* collection, the edges appended so far, the descriptors as edited so far,
\* and whether a KeyError ended the loop.
RECURSIVE attributeLoop(_, _, _, _)
attributeLoop(node, attributes, i, acc) ==
    IF i > Len(attributes) \/ acc.raised THEN acc
    ELSE attributeLoop(node, attributes, i + 1, attributeStep(node, attributes[i], acc))

\* what relate2attribute leaves: acc, and the list with its edited descriptors
attributeResult(attributes, acc) ==
    [attrs |-> acc.attrs, rels |-> acc.rels, raised |-> acc.raised,
     attributes |-> acc.edited \o SubSeq(attributes, Len(acc.edited) + 1, Len(attributes))]

relate2attribute(all_attributes, node, attributes) ==
    attributeResult(attributes,
        attributeLoop(node, attributes, 1,
            [attrs |-> all_attributes, rels |-> <<>>, edited |-> <<>>, raised |-> FALSE]))

\* the `to` of the edge that relate2associated_entity makes of one name
entityTarget(entity) == IF ~startswith(entity, "entity") THEN "entity." \o entity ELSE entity

relate2associated_entity(node, entities) ==
    [i \in DOMAIN entities |-> [from |-> node, to |-> entityTarget(entities[i])]]

\* the `to` of the edge that relate2event makes of one name
eventTarget(event_name) == IF ~startswith(event_name, "event") THEN "event." \o event_name ELSE event_name

relate2event(node, events) ==
    [i \in DOMAIN events |-> [from |-> node, to |-> eventTarget(events[i])]]

\* line 88
recognised(node_type) == node_type \in DOMAIN nodes

\* section.get(field, [])
listOf(section, field) == IF field \in DOMAIN section THEN section[field] ELSE <<>>

\* lines 98-100
displayName(node_type, key, section) ==
    IF node_type = "AttributeGroup" /\ "display_name" \notin DOMAIN section
    THEN SetItem(section, "display_name", key)
    ELSE section

\* the entry as relate2attribute's edits of its descriptors leave it
edited(section, ra) ==
    IF "attributes" \in DOMAIN section THEN SetItem(section, "attributes", ra.attributes) ELSE section

\* lines 91-92: the node collections once the entry is stored under its id and
\* relate2attribute has run; the stored node is the entry object itself
storeNode(node_type, key, section, ra) ==
    [nodes EXCEPT ![node_type] = Put(@, key, section), !.Attribute = ra.attrs]

\* line 92
withAttributes(rels, node_type, ra) ==
    [rels EXCEPT !.HasAttribute = Extend(@, node_type, ra.rels)]

\* line 93
withEvents(rels, node_type, key, section) ==
    [rels EXCEPT !.HasEvent = Extend(@, node_type, relate2event(key, listOf(section, "events")))]

\* lines 96-97
withEntities(rels, node_type, key, section) ==
    IF "entity_associations" \in DOMAIN section
    THEN [rels EXCEPT !.AssociatedWith =
              Extend(@, node_type, relate2associated_entity(key, section.entity_associations))]
    ELSE rels

\* lines 89-100 for an entry of a recognised kind, given what relate2attribute
\* returned (ra): a KeyError in relate2attribute ends add_groups after line 92
process(node_type, key, section, ra) ==
    IF ra.raised
    THEN [nodes |-> storeNode(node_type, key, edited(section, ra), ra),
          relations |-> withAttributes(relations, node_type, ra),
          outcome |-> "raised"]
    ELSE [nodes |-> storeNode(node_type, key,
                       displayName(node_type, key, edited(section, ra)), ra),
          relations |-> withEntities(
                            withEvents(withAttributes(relations, node_type, ra),
                                       node_type, key, section),
                            node_type, key, section),
          outcome |-> "stored"]

\* lines 89-92
store(node_type, key, section) ==
    process(node_type, key, section,
            relate2attribute(nodes.Attribute, key, listOf(section, "attributes")))

\* The body of the loop of add_groups for one entry: the collections it leaves
\* and how it ended. An entry of a recognised kind without an id raises
\* KeyError at line 89.
addGroup(section) ==
    IF ~recognised(nodetype2node(section))
    THEN [nodes |-> nodes, relations |-> relations, outcome |-> "dropped"]
    ELSE IF "id" \notin DOMAIN section
    THEN [nodes |-> nodes, relations |-> relations, outcome |-> "raised"]
    ELSE store(nodetype2node(section), section.id, Del(section, "type"))

----------------------------------------------------------------------------
(* The run *)

Init ==
    /\ nodes = reset.nodes
    /\ relations = reset.relations
    /\ pc = "import"
    /\ used = 0
    /\ last = [op |-> "init"]
    /\ shapes = <<>>
    /\ statements = <<>>
    /\ idx = 0
    /\ files = <<>>
    /\ attempted = <<>>
    /\ failed = FALSE

\* rels[rel_name][node_type], or no edge when the batch does not exist
edgesOf(rels, rel_name, node_type) ==
    IF Has(rels[rel_name], node_type) THEN Get(rels[rel_name], node_type) ELSE <<>>

shapeOf(data) == IF "ref" \in DOMAIN data THEN "ref" ELSE "inline"

\* shapes, once the entry has left the relations rels: one shape for each
\* HasAttribute edge that relate2attribute appended
shapesAfter(section, rels) ==
    IF Has(rels.HasAttribute, nodetype2node(section))
    THEN Extend(shapes, nodetype2node(section),
                [i \in 1..(Len(edgesOf(rels, "HasAttribute", nodetype2node(section)))
                           - Len(edgesOf(relations, "HasAttribute", nodetype2node(section))))
                    |-> shapeOf(section.attributes[i])])
    ELSE shapes

\* lines 68-74: the next file parses to a dict and add_groups starts on it
ReadDocument ==
    /\ pc = "import"
    /\ pc' = "groups"
    /\ last' = [op |-> "read"]
    /\ UNCHANGED <<nodes, relations, used, shapes, statements, idx, files, attempted, failed>>

\* lines 86-102: add_groups handles the next entry of the document; a KeyError
\* leaves add_groups and is logged at line 78, and the next file is read
AddGroup(section) ==
    /\ pc = "groups"
    /\ used + Size(section) <= MaxItems
    /\ \E r \in {addGroup(section)} :
        /\ nodes' = r.nodes
        /\ relations' = r.relations
        /\ pc' = IF r.outcome = "raised" THEN "import" ELSE "groups"
        /\ last' = [op |-> "add_groups", section |-> section, outcome |-> r.outcome,
                    after |-> IF last.op = "add_groups" THEN last.outcome ELSE "none"]
        /\ shapes' = shapesAfter(section, r.relations)
    /\ used' = used + Size(section)
    /\ UNCHANGED <<statements, idx, files, attempted, failed>>

\* line 86: the document has no further entry
EndGroups ==
    /\ pc = "groups"
    /\ pc' = "import"
    /\ last' = [op |-> "end_groups"]
    /\ UNCHANGED <<nodes, relations, used, shapes, statements, idx, files, attempted, failed>>

Ingest ==
    \/ ReadDocument
    \/ \E section \in Sections[MaxItems - used] : AddGroup(section)
    \/ EndGroups

----------------------------------------------------------------------------
(* PersistenceKuzu *)

\* what model_data.split(';') can give (line 225): a file of two statements
\* with a line break after each terminator, and a file of one statement
\* without a terminator
SchemaFiles ==
    { << "CREATE NODE TABLE Attribute(id STRING, PRIMARY KEY(id))",
         "\nCREATE REL TABLE HasAttribute(FROM Metric TO Attribute)",
         "\n" >>,
      << "CREATE NODE TABLE Metric(id STRING, PRIMARY KEY(id))" >> }

\* statement.strip() is empty (line 227)
blank(statement) == statement \in {"", " ", "\n"}

\* lines 226-228: the statements set_schema executes
schemaStatements == SelectSeq(statements, LAMBDA c : ~blank(c))

\* lines 235-237
nodeFile(node_type) == node_type \o "s.json"
nodeStatement(node_type) ==
    "COPY " \o node_type \o " FROM '" \o nodeFile(node_type) \o "' (ignore_errors=true)"

\* lines 247-249
relationFile(rel_name, node_type) == "rel_" \o node_type \o "_" \o rel_name \o ".json"
relationStatement(rel_name, node_type) ==
    "COPY " \o rel_name \o " FROM '" \o relationFile(rel_name, node_type)
        \o "' (from='" \o node_type \o "', to='" \o relation2node[rel_name] \o "')"

\* lines 244-246: the (relation, source node table) batches in the order the two
\* nested loops of persist_relations visit them
RECURSIVE batchesFrom(_)
batchesFrom(r) ==
    IF r > Len(RelationNames) THEN <<>>
    ELSE LET rel_data == relations[RelationNames[r]]
         IN [i \in DOMAIN rel_data |->
                [rel_name |-> RelationNames[r], node_type |-> rel_data[i].k,
                 relations |-> rel_data[i].v]]
            \o batchesFrom(r + 1)

\* mutant: a batch without edges is skipped
batchesNonEmpty == SelectSeq(batchesFrom(1), LAMBDA b : Len(b.relations) > 0)

batches == batchesFrom(1)

\* mutant: the store's exception leaves execute
executeUncaught(statement, rejects) == IF rejects THEN "raised" ELSE "ok"

\* lines 270-276: what execute does with the store's answer to one statement
execute(statement, rejects) == IF rejects THEN "caught" ELSE "ok"

\* where the script stands once iteration i of the loop of `phase` has ended
after(phase, i) ==
    IF phase = "schema"
    THEN IF i < Len(schemaStatements) THEN <<"schema", i + 1>> ELSE <<"nodes", 1>>
    ELSE IF phase = "nodes"
    THEN IF i < Len(NodeTypes) THEN <<"nodes", i + 1>>
         ELSE IF Len(batches) > 0 THEN <<"relations", 1>> ELSE <<"done", 0>>
    ELSE IF i < Len(batches) THEN <<"relations", i + 1>> ELSE <<"done", 0>>

\* one call of execute from the loop of `phase`
Execute(phase, statement, rejects) ==
    \E to \in {IF execute(statement, rejects) = "raised"
                THEN <<"crashed", 0>> ELSE after(phase, idx)} :
       /\ attempted' = Append(attempted, statement)
       /\ failed' = (failed \/ rejects)
       /\ last' = [op |-> "execute", statement |-> statement, rejects |-> rejects]
       /\ pc' = to[1]
       /\ idx' = to[2]

\* lines 62-68, 203-213 and 222-225: the traversal has no further file;
\* create_db opens the store and set_schema reads and splits the schema file
CreateDb(schema_file) ==
    /\ pc = "import"
    /\ pc' = "schema"
    /\ statements' = schema_file
    /\ idx' = 1
    /\ last' = [op |-> "create_db"]
    /\ UNCHANGED <<nodes, relations, used, shapes, files, attempted, failed>>

\* lines 226-228: set_schema executes its next statement
SetSchema(rejects) ==
    /\ pc = "schema"
    /\ Execute("schema", schemaStatements[idx], rejects)
    /\ UNCHANGED <<nodes, relations, used, shapes, statements, files>>

\* lines 234-238: persist_nodes writes and loads the batch of its next node table
PersistNodes(rejects) ==
    /\ pc = "nodes"
    /\ LET node_type == NodeTypes[idx] IN
        /\ files' = Append(files, [name |-> nodeFile(node_type),
                                   objects |-> Values(nodes[node_type])])
        /\ Execute("nodes", nodeStatement(node_type), rejects)
    /\ UNCHANGED <<nodes, relations, used, shapes, statements>>

\* lines 244-250: persist_relations writes and loads its next batch
PersistRelations(rejects) ==
    /\ pc = "relations"
    /\ LET b == batches[idx] IN
        /\ files' = Append(files, [name |-> relationFile(b.rel_name, b.node_type),
                                   objects |-> b.relations])
        /\ Execute("relations", relationStatement(b.rel_name, b.node_type), rejects)
    /\ UNCHANGED <<nodes, relations, used, shapes, statements>>

\* lines 280-284: the traversal, and then the opening of the store
Load ==
    \/ Ingest
    \/ \E schema_file \in SchemaFiles : CreateDb(schema_file)

\* lines 284-286: the statements of set_schema, persist_nodes, persist_relations
Persist ==
    \/ \E rejects \in BOOLEAN : SetSchema(rejects)
    \/ \E rejects \in BOOLEAN : PersistNodes(rejects)
    \/ \E rejects \in BOOLEAN : PersistRelations(rejects)

Next == Load \/ Persist

Spec == Init /\ [][Next]_vars

\* the run up to the first statement sent to the store: the graph is built
\* and persistence starts
LoadSpec == Init /\ [][Load]_vars

----------------------------------------------------------------------------
(* Properties *)

\* the step just taken handled the entry last'.section (used in action formulas)
AddGroupStep == pc = "groups" /\ last'.op = "add_groups"

\* the latest step handled an entry and reached the end of the loop body
Stored == last.op = "add_groups" /\ last.outcome = "stored"

\* the last n elements of seq
Latest(seq, n) == SubSeq(seq, Len(seq) - n + 1, Len(seq))

Count(seq, x) == Cardinality({i \in DOMAIN seq : seq[i] = x})

IngestibleKinds == {"metric", "entity", "span", "attribute_group", "event"}

Persisting == pc \in {"schema", "nodes", "relations", "done"}

\* C1 (as claimed): an entry of a recognised kind whose id is already a key of
\* its node type's collection leaves the stored entry unchanged, is not stored
\* itself, and adds no edge and no Attribute node.
C1_DuplicateRejected ==
    [][ (/\ AddGroupStep
         /\ recognised(nodetype2node(last'.section))
         /\ "id" \in DOMAIN last'.section
         /\ Has(nodes[nodetype2node(last'.section)], last'.section.id))
        => (nodes' = nodes /\ relations' = relations) ]_vars

\* C2 (as claimed): an Attribute node, once stored under an id, is never
\* overwritten or merged: it stays stored, unchanged, for the rest of the run;
\* of the inline definitions that one entry gives for an id that was not
\* stored, the first is the one that is stored.
C2_AttributeNeverOverwritten ==
    [][ /\ \A id \in Keys(nodes.Attribute) :
            /\ Has(nodes'.Attribute, id)
            /\ Get(nodes'.Attribute, id) = Get(nodes.Attribute, id)
        /\ (AddGroupStep /\ last'.outcome = "stored") =>
            \A i \in DOMAIN listOf(last'.section, "attributes") :
                LET attributes == last'.section.attributes IN
                (/\ "ref" \notin DOMAIN attributes[i]
                 /\ ~Has(nodes.Attribute, attributes[i].id)
                 /\ \A j \in 1..(i - 1) :
                        "ref" \in DOMAIN attributes[j] \/ attributes[j].id # attributes[i].id)
                => Get(nodes'.Attribute, attributes[i].id) = Del(attributes[i], "type") ]_vars

\* C3 (as claimed): when persistence starts, and from then on, the `to` of
\* every HasAttribute edge is a key of the Attribute collection.
C3_EveryTargetIsAttribute ==
    Persisting =>
        \A b \in DOMAIN relations.HasAttribute :
            \A i \in DOMAIN relations.HasAttribute[b].v :
                Has(nodes.Attribute, relations.HasAttribute[b].v[i].to)

\* C3 (amended): when persistence starts, and from then on, the `to` of every
\* HasAttribute edge made from an inline descriptor is a key of the Attribute
\* collection; the same holds whenever add_groups has finished an entry.
C3_InlineTargetIsAttribute ==
    (Persisting \/ pc = "groups" \/ pc = "import") =>
        \A b \in DOMAIN relations.HasAttribute :
            \A i \in DOMAIN relations.HasAttribute[b].v :
                Get(shapes, relations.HasAttribute[b].k)[i] = "inline"
                    => Has(nodes.Attribute, relations.HasAttribute[b].v[i].to)

\* C3 witness: persistence has started on a graph that holds an edge made from
\* an inline descriptor and an edge whose referenced attribute is no node
C3_Witness ==
    /\ pc = "schema"
    /\ \E b \in DOMAIN relations.HasAttribute :
        /\ \E i \in DOMAIN relations.HasAttribute[b].v :
               Get(shapes, relations.HasAttribute[b].k)[i] = "inline"
        /\ \E i \in DOMAIN relations.HasAttribute[b].v :
               /\ Get(shapes, relations.HasAttribute[b].k)[i] = "ref"
               /\ ~Has(nodes.Attribute, relations.HasAttribute[b].v[i].to)

\* C4: a reference descriptor creates no Attribute node and changes none; its
\* edge goes from the source node to the ref value, carries no `ref` field and
\* carries the descriptor's other fields (a flat requirement level unchanged).
C4_ReferenceDescriptor ==
    [][ (AddGroupStep /\ last'.outcome # "dropped" /\ "id" \in DOMAIN last'.section) =>
        LET section == last'.section
            node_type == nodetype2node(section)
            attributes == listOf(section, "attributes")
            old == Len(edgesOf(relations, "HasAttribute", node_type))
            new == edgesOf(relations', "HasAttribute", node_type)
            made == Len(new) - old
            inlineIds == {attributes[i].id : i \in {j \in 1..made : "ref" \notin DOMAIN attributes[j]}}
        IN /\ made <= Len(attributes)
           /\ last'.outcome = "stored" => made = Len(attributes)
           /\ \A i \in 1..made : "ref" \in DOMAIN attributes[i] =>
                /\ new[old + i].from = section.id
                /\ new[old + i].to = attributes[i].ref
                /\ "ref" \notin DOMAIN new[old + i]
                /\ (DOMAIN attributes[i] \ {"ref"}) \subseteq DOMAIN new[old + i]
                /\ ("requirement_level" \in DOMAIN attributes[i]
                        /\ ~isdict(attributes[i].requirement_level))
                   => new[old + i].requirement_level = attributes[i].requirement_level
           /\ \A k \in AttrIds \ inlineIds :
                /\ Has(nodes'.Attribute, k) = Has(nodes.Attribute, k)
                /\ Has(nodes.Attribute, k)
                       => Get(nodes'.Attribute, k) = Get(nodes.Attribute, k) ]_vars

\* C4 witness: an entry was stored whose reference descriptor names an
\* attribute that is no node, and its edge is the latest of its batch
C4_Witness ==
    /\ Stored
    /\ "attributes" \in DOMAIN last.section
    /\ \E i \in DOMAIN last.section.attributes :
        /\ "ref" \in DOMAIN last.section.attributes[i]
        /\ "requirement_level" \in DOMAIN last.section.attributes[i]
        /\ ~Has(nodes.Attribute, last.section.attributes[i].ref)
        /\ Len(edgesOf(relations, "HasAttribute", nodetype2node(last.section)))
               >= Len(last.section.attributes)

\* the edge of the i-th descriptor of the entry that was just stored
LatestAttributeEdge(i) ==
    Latest(edgesOf(relations, "HasAttribute", nodetype2node(last.section)),
           Len(last.section.attributes))[i]

\* the i-th descriptor of the entry just stored is a reference descriptor whose
\* requirement level is a mapping that holds conditionally_required
Conditional(i) ==
    /\ "ref" \in DOMAIN last.section.attributes[i]
    /\ "requirement_level" \in DOMAIN last.section.attributes[i]
    /\ isdict(last.section.attributes[i].requirement_level)
    /\ "conditionally_required" \in DOMAIN last.section.attributes[i].requirement_level[2]

EdgeLevelIs(i, level) ==
    /\ LatestAttributeEdge(i).requirement_level = PyStr(level)
    /\ "condition" \in DOMAIN LatestAttributeEdge(i)
    /\ LatestAttributeEdge(i).condition = last.section.attributes[i].requirement_level[2][level]

\* C5 (as claimed): a compound requirement level that holds conditionally_required,
\* whatever else it holds, gives the edge requirement_level "conditionally_required"
\* and the condition stored under that key.
C5_ConditionallyRequiredAlways ==
    (Stored /\ "attributes" \in DOMAIN last.section) =>
        \A i \in DOMAIN last.section.attributes :
            Conditional(i) => EdgeLevelIs(i, "conditionally_required")

\* C5 (amended): a compound requirement level that holds conditionally_required
\* and not recommended gives the edge requirement_level "conditionally_required"
\* and the condition stored under that key; one that holds both keys gives
\* requirement_level "recommended" and the condition stored under recommended.
C5_ConditionallyRequiredUnlessRecommended ==
    (Stored /\ "attributes" \in DOMAIN last.section) =>
        \A i \in DOMAIN last.section.attributes :
            Conditional(i) =>
                IF "recommended" \in DOMAIN last.section.attributes[i].requirement_level[2]
                THEN EdgeLevelIs(i, "recommended")
                ELSE EdgeLevelIs(i, "conditionally_required")

\* C5 witness: an entry was stored whose reference descriptor holds
\* conditionally_required alone
C5_Witness ==
    /\ Stored
    /\ "attributes" \in DOMAIN last.section
    /\ \E i \in DOMAIN last.section.attributes :
        /\ Conditional(i)
        /\ "recommended" \notin DOMAIN last.section.attributes[i].requirement_level[2]
        /\ LatestAttributeEdge(i).requirement_level = PyStr("conditionally_required")

\* the namespaced form of an identifier, as the claim defines it
Prefixed(prefix, name) == IF startswith(name, prefix) THEN name ELSE prefix \o name

\* C6 (as claimed): the `to` of the edge made of an event or entity identifier
\* is the identifier when it starts with `event.` / `entity.` and the prefix
\* followed by the identifier otherwise, so every HasEvent `to` starts with
\* `event.` and every AssociatedWith `to` starts with `entity.`.
C6_NamespacePrefix ==
    /\ Stored =>
        /\ \A i \in DOMAIN listOf(last.section, "events") :
               Latest(edgesOf(relations, "HasEvent", nodetype2node(last.section)),
                      Len(last.section.events))[i].to
                   = Prefixed("event.", last.section.events[i])
        /\ \A i \in DOMAIN listOf(last.section, "entity_associations") :
               Latest(edgesOf(relations, "AssociatedWith", nodetype2node(last.section)),
                      Len(last.section.entity_associations))[i].to
                   = Prefixed("entity.", last.section.entity_associations[i])
    /\ \A b \in DOMAIN relations.HasEvent : \A i \in DOMAIN relations.HasEvent[b].v :
           startswith(relations.HasEvent[b].v[i].to, "event.")
    /\ \A b \in DOMAIN relations.AssociatedWith : \A i \in DOMAIN relations.AssociatedWith[b].v :
           startswith(relations.AssociatedWith[b].v[i].to, "entity.")

\* C7: an entry whose type is none of the five ingestible kinds (or is missing)
\* changes no node collection and no edge collection, and add_groups goes on
\* with the entries that follow it in the document.
C7_UnknownKindDropped ==
    [][ (/\ AddGroupStep
         /\ (IF "type" \in DOMAIN last'.section THEN last'.section.type ELSE None)
                \notin IngestibleKinds)
        => (/\ nodes' = nodes
            /\ relations' = relations
            /\ last'.outcome = "dropped"
            /\ pc' = "groups") ]_vars

\* C7 witness: an entry was stored right after an entry of the same document
\* was dropped
C7_Witness ==
    /\ Stored
    /\ last.after = "dropped"
    /\ Has(nodes[nodetype2node(last.section)], last.section.id)

\* C8: no node stored in any of the six node collections has a `type` field.
C8_NoTypeField ==
    \A t \in Range(NodeTypes) : \A i \in DOMAIN nodes[t] : "type" \notin DOMAIN nodes[t][i].v

\* C8 witness: an entry and an inline attribute definition, both of which came
\* with a type, are stored
C8_Witness ==
    /\ Stored
    /\ "type" \in DOMAIN last.section
    /\ "attributes" \in DOMAIN last.section
    /\ \E i \in DOMAIN last.section.attributes :
        /\ "ref" \notin DOMAIN last.section.attributes[i]
        /\ Has(nodes.Attribute, last.section.attributes[i].id)

\* one batch file and one bulk-load call for each of the six node types
NodeBatches ==
    \A i \in DOMAIN NodeTypes :
        /\ Count([j \in DOMAIN files |-> files[j].name], nodeFile(NodeTypes[i])) = 1
        /\ Count(attempted, nodeStatement(NodeTypes[i])) = 1

\* C9 (as claimed): once persist_relations has ended, every node type has one
\* batch file and one bulk-load call, and a (source type, edge type) pair has a
\* bulk-load call exactly when its batch of edges is nonempty.
C9_LoadIffNonempty ==
    pc = "done" =>
        /\ NodeBatches
        /\ \A r \in DOMAIN RelationNames : \A t \in DOMAIN NodeTypes :
               Count(attempted, relationStatement(RelationNames[r], NodeTypes[t]))
                   = IF Len(edgesOf(relations, RelationNames[r], NodeTypes[t])) > 0 THEN 1 ELSE 0

\* C9 (amended): once persist_relations has ended, every node type has one
\* batch file and one bulk-load call, and a (source type, edge type) pair has
\* one batch file and one bulk-load call exactly when the source type is a key
\* of that edge type's collection, whether or not its batch holds an edge.
C9_LoadIffBatchExists ==
    pc = "done" =>
        /\ NodeBatches
        /\ \A r \in DOMAIN RelationNames : \A t \in DOMAIN NodeTypes :
            /\ Count(attempted, relationStatement(RelationNames[r], NodeTypes[t]))
                   = IF Has(relations[RelationNames[r]], NodeTypes[t]) THEN 1 ELSE 0
            /\ Count([j \in DOMAIN files |-> files[j].name],
                     relationFile(RelationNames[r], NodeTypes[t]))
                   = IF Has(relations[RelationNames[r]], NodeTypes[t]) THEN 1 ELSE 0

\* C9 witness: persistence has ended and has loaded a batch without edges
C9_Witness ==
    /\ pc = "done"
    /\ Has(relations.HasAttribute, "Metric")
    /\ Len(Get(relations.HasAttribute, "Metric")) = 0
    /\ Len(edgesOf(relations, "HasEvent", "Metric")) > 0
    /\ Count(attempted, relationStatement("HasAttribute", "Metric")) = 1

\* every statement of the schema, every node type's bulk load and every batch's
\* bulk load, in the order of the three loops
AllStatements ==
    schemaStatements
    \o [i \in DOMAIN NodeTypes |-> nodeStatement(NodeTypes[i])]
    \o [i \in DOMAIN batches |-> relationStatement(batches[i].rel_name, batches[i].node_type)]

\* C10: whatever statements the store rejects, the statements attempted so far
\* are the first of AllStatements in order, the script never leaves a
\* persistence loop early, the next statement can always be attempted, and at
\* the end of persist_relations every statement has been attempted.
C10_EveryStatementAttempted ==
    /\ pc \in {"import", "groups", "schema", "nodes", "relations", "done"}
    /\ Persisting =>
        /\ Len(attempted) <= Len(AllStatements)
        /\ attempted = SubSeq(AllStatements, 1, Len(attempted))
    /\ pc \in {"schema", "nodes", "relations"} => ENABLED Persist
    /\ pc = "done" => attempted = AllStatements

\* C10 witness: the run reached the end of persist_relations although the store
\* rejected an earlier statement, and the last statement was attempted and accepted
C10_Witness ==
    /\ pc = "done"
    /\ failed
    /\ last.op = "execute" /\ ~last.rejects
    /\ Len(attempted) > Len(schemaStatements) + Len(NodeTypes)

====
